---- MODULE Spec2Model ----
(***************************************************************************)
(* FemtoClaw protocol validation (FC-03): src/src/validation.rs and        *)
(* src/src/message.rs.                                                     *)
(*                                                                         *)
(* A serde_json::Value is a record [t, v]: t is the JSON type and v the    *)
(* payload.  An object's payload is a function from its keys to values; an *)
(* array's payload is a sequence of values.  Input text is a sequence of   *)
(* lexical tokens [k, s]; serde_json::from_str is a recursive-descent      *)
(* parse of that sequence, serde_json::to_string the rendering.            *)
(***************************************************************************)
EXTENDS Integers, Sequences, FiniteSets, TLC

VARIABLES form, value, text, op, result, wire, again

vars == <<form, value, text, op, result, wire, again>>

(***************************************************************************)
(* Bounds of the input universe.                                           *)
(***************************************************************************)
\* how many unrecognized top-level keys an input object may carry
MaxUnknown == 1
\* how many unrecognized keys the nested message / tool_call object may carry
MaxNested == 1
\* how many distinct string payloads occur (the first is the empty string)
MaxStrings == 2

StringPool == <<"", "x", "fs.read", "Hello, world">>
UnknownPool == <<"note", "alpha", "zeta", "unknown">>
NestedPool == <<"extra", "id", "meta", "tag">>

Strings == {StringPool[i] : i \in 1..MaxStrings}
UnknownKeys == {UnknownPool[i] : i \in 1..MaxUnknown}
NestedKeys == {NestedPool[i] : i \in 1..MaxNested}

(***************************************************************************)
(* serde_json::Value                                                       *)
(***************************************************************************)
Null == [t |-> "null", v |-> "null"]
Bool(b) == [t |-> "bool", v |-> b]
Number(n) == [t |-> "number", v |-> n]
String(s) == [t |-> "string", v |-> s]
Array(elems) == [t |-> "array", v |-> elems]
Object(map) == [t |-> "object", v |-> map]

\* an empty serde_json::Map
EmptyMap == [k \in {} |-> Null]

\* Map::insert: a later insert of the same key replaces the value
map_insert(map, key, val) ==
  [k \in DOMAIN map \cup {key} |-> IF k = key THEN val ELSE map[k]]

\* the map holding the given set of <<key, value>> pairs (keys distinct)
MapOf(pairs) ==
  [k \in {p[1] : p \in pairs} |-> (CHOOSE p \in pairs : p[1] = k)[2]]

is_object(val) == val.t = "object"
is_string(val) == val.t = "string"

\* Map::contains_key
contains_key(map, key) == key \in DOMAIN map

\* Index<&str> for Value: Null when val is not an object or lacks the key
Index(val, key) ==
  IF is_object(val) /\ key \in DOMAIN val.v THEN val.v[key] ELSE Null

\* Every key the model uses, in byte order: the order in which a
\* serde_json::Map (a BTreeMap) iterates.
SortedKeys ==
  <<"Message", "ToolCall", "alpha", "args", "content", "extra", "id", "message", "meta", "note",
    "tag", "tool", "tool_call", "unknown", "url", "zeta">>

\* Map::keys: the keys of map in iteration order
keys(map) == SelectSeq(SortedKeys, LAMBDA k : k \in DOMAIN map)

(***************************************************************************)
(* ValidationError and Result                                              *)
(***************************************************************************)
\* kind is the enum variant, msg its format string, arg what is formatted
\* into the {} of msg ("" when msg has none)
InvalidJson(category) == [kind |-> "InvalidJson", msg |-> category, arg |-> ""]
ProtocolViolation(msg) == [kind |-> "ProtocolViolation", msg |-> msg, arg |-> ""]
MissingField(path) == [kind |-> "MissingField", msg |-> path, arg |-> ""]
InvalidFieldType(msg) == [kind |-> "InvalidFieldType", msg |-> msg, arg |-> ""]
UnknownField(key) ==
  [kind |-> "UnknownField",
   msg |-> "unknown field '{}' - protocol messages must only contain 'message' or 'tool_call'",
   arg |-> key]

Ok(out) == [ok |-> TRUE, out |-> out]
Err(e) == [ok |-> FALSE, err |-> e]
\* Ok(()) of the two form checkers
OkUnit == [ok |-> TRUE, out |-> "unit"]

(***************************************************************************)
(* ProtocolOutput (message.rs)                                             *)
(***************************************************************************)
\* ProtocolOutput::Message(MessageForm { message: MessageContent { content } })
Message(content) ==
  [variant |-> "Message", message |-> [content |-> content]]

\* ProtocolOutput::ToolCall(ToolCallWrapper { tool_call: ToolCallForm { tool, args } })
ToolCall(tool, args) ==
  [variant |-> "ToolCall", tool_call |-> [tool |-> tool, args |-> args]]

(***************************************************************************)
(* Validator (validation.rs)                                               *)
(***************************************************************************)
\* known_fields with a third entry left in
known_fields_extra == <<"message", "tool_call", "note">>

\* Validator::new
known_fields == <<"message", "tool_call">>

\* Vec::contains on known_fields
is_known(key) == \E i \in 1..Len(known_fields) : known_fields[i] = key

\* validate_message_form without the is_empty check
validate_message_form_allow_empty(obj) ==
  LET message == obj["message"] IN
  IF ~contains_key(obj, "message") THEN Err(MissingField("message"))
  ELSE IF ~is_object(message)
    THEN Err(ProtocolViolation("message must be an object"))
  ELSE IF ~contains_key(message.v, "content")
    THEN Err(MissingField("message.content"))
  ELSE IF ~is_string(message.v["content"])
    THEN Err(InvalidFieldType("message.content must be a string"))
  ELSE OkUnit

validate_message_form(obj) ==
  LET message == obj["message"] IN
  IF ~contains_key(obj, "message") THEN Err(MissingField("message"))
  ELSE IF ~is_object(message)
    THEN Err(ProtocolViolation("message must be an object"))
  ELSE IF ~contains_key(message.v, "content")
    THEN Err(MissingField("message.content"))
  ELSE IF ~is_string(message.v["content"])
    THEN Err(InvalidFieldType("message.content must be a string"))
  ELSE IF message.v["content"].v = ""
    THEN Err(ProtocolViolation("message.content must not be empty"))
  ELSE OkUnit

\* validate_tool_call_form without the is_object check of args
validate_tool_call_form_any_args(obj) ==
  LET tool_call == obj["tool_call"] IN
  IF ~contains_key(obj, "tool_call") THEN Err(MissingField("tool_call"))
  ELSE IF ~is_object(tool_call)
    THEN Err(ProtocolViolation("tool_call must be an object"))
  ELSE IF ~contains_key(tool_call.v, "tool")
    THEN Err(MissingField("tool_call.tool"))
  ELSE IF ~is_string(tool_call.v["tool"])
    THEN Err(InvalidFieldType("tool_call.tool must be a string"))
  ELSE IF tool_call.v["tool"].v = ""
    THEN Err(ProtocolViolation("tool_call.tool must not be empty"))
  ELSE IF ~contains_key(tool_call.v, "args")
    THEN Err(MissingField("tool_call.args"))
  ELSE OkUnit

\* validate_tool_call_form that rejects only a null args
validate_tool_call_form_non_null_args(obj) ==
  LET tool_call == obj["tool_call"] IN
  IF ~contains_key(obj, "tool_call") THEN Err(MissingField("tool_call"))
  ELSE IF ~is_object(tool_call)
    THEN Err(ProtocolViolation("tool_call must be an object"))
  ELSE IF ~contains_key(tool_call.v, "tool")
    THEN Err(MissingField("tool_call.tool"))
  ELSE IF ~is_string(tool_call.v["tool"])
    THEN Err(InvalidFieldType("tool_call.tool must be a string"))
  ELSE IF tool_call.v["tool"].v = ""
    THEN Err(ProtocolViolation("tool_call.tool must not be empty"))
  ELSE IF ~contains_key(tool_call.v, "args")
    THEN Err(MissingField("tool_call.args"))
  ELSE IF tool_call.v["args"] = Null
    THEN Err(InvalidFieldType("tool_call.args must be an object"))
  ELSE OkUnit

\* validate_tool_call_form that checks args before tool
validate_tool_call_form_args_first(obj) ==
  LET tool_call == obj["tool_call"] IN
  IF ~contains_key(obj, "tool_call") THEN Err(MissingField("tool_call"))
  ELSE IF ~is_object(tool_call)
    THEN Err(ProtocolViolation("tool_call must be an object"))
  ELSE IF ~contains_key(tool_call.v, "args")
    THEN Err(MissingField("tool_call.args"))
  ELSE IF ~is_object(tool_call.v["args"])
    THEN Err(InvalidFieldType("tool_call.args must be an object"))
  ELSE IF ~contains_key(tool_call.v, "tool")
    THEN Err(MissingField("tool_call.tool"))
  ELSE IF ~is_string(tool_call.v["tool"])
    THEN Err(InvalidFieldType("tool_call.tool must be a string"))
  ELSE IF tool_call.v["tool"].v = ""
    THEN Err(ProtocolViolation("tool_call.tool must not be empty"))
  ELSE OkUnit

validate_tool_call_form(obj) ==
  LET tool_call == obj["tool_call"] IN
  IF ~contains_key(obj, "tool_call") THEN Err(MissingField("tool_call"))
  ELSE IF ~is_object(tool_call)
    THEN Err(ProtocolViolation("tool_call must be an object"))
  ELSE IF ~contains_key(tool_call.v, "tool")
    THEN Err(MissingField("tool_call.tool"))
  ELSE IF ~is_string(tool_call.v["tool"])
    THEN Err(InvalidFieldType("tool_call.tool must be a string"))
  ELSE IF tool_call.v["tool"].v = ""
    THEN Err(ProtocolViolation("tool_call.tool must not be empty"))
  ELSE IF ~contains_key(tool_call.v, "args")
    THEN Err(MissingField("tool_call.args"))
  ELSE IF ~is_object(tool_call.v["args"])
    THEN Err(InvalidFieldType("tool_call.args must be an object"))
  ELSE OkUnit

\* the first key, in iteration order, that known_fields does not contain
\* (the for loop of validate); "" when every key is known
first_unknown(obj) ==
  LET unknown == SelectSeq(keys(obj), LAMBDA k : ~is_known(k))
  IN IF unknown = <<>> THEN "" ELSE Head(unknown)

\* validate with the closed-field loop ahead of the exclusivity checks
validate_closed_first(val) ==
  IF ~is_object(val) THEN Err(ProtocolViolation("must be a JSON object"))
  ELSE
    LET obj == val.v
        has_message == contains_key(obj, "message")
        has_tool_call == contains_key(obj, "tool_call")
        content == Index(Index(val, "message"), "content")
        tool == Index(Index(val, "tool_call"), "tool")
        args == Index(Index(val, "tool_call"), "args")
    IN
    IF \E k \in DOMAIN obj : ~is_known(k)
      THEN Err(UnknownField(first_unknown(obj)))
    ELSE IF has_message /\ has_tool_call
      THEN Err(ProtocolViolation(
        "protocol messages must contain exactly one of 'message' or 'tool_call', not both"))
    ELSE IF ~has_message /\ ~has_tool_call
      THEN Err(ProtocolViolation(
        "protocol messages must contain either 'message' or 'tool_call'"))
    ELSE IF has_message
      THEN IF ~validate_message_form(obj).ok THEN validate_message_form(obj)
           ELSE IF ~is_string(content)
             THEN Err(InvalidFieldType("message.content must be a string"))
           ELSE Ok(Message(content.v))
    ELSE IF ~validate_tool_call_form(obj).ok THEN validate_tool_call_form(obj)
    ELSE IF ~is_string(tool)
      THEN Err(InvalidFieldType("tool_call.tool must be a string"))
    ELSE Ok(ToolCall(tool.v, args))

\* validate without the neither-present check
validate_no_neither(val) ==
  IF ~is_object(val) THEN Err(ProtocolViolation("must be a JSON object"))
  ELSE
    LET obj == val.v
        has_message == contains_key(obj, "message")
        has_tool_call == contains_key(obj, "tool_call")
        content == Index(Index(val, "message"), "content")
        tool == Index(Index(val, "tool_call"), "tool")
        args == Index(Index(val, "tool_call"), "args")
    IN
    IF has_message /\ has_tool_call
      THEN Err(ProtocolViolation(
        "protocol messages must contain exactly one of 'message' or 'tool_call', not both"))
    ELSE IF \E k \in DOMAIN obj : ~is_known(k)
      THEN Err(UnknownField(first_unknown(obj)))
    ELSE IF has_message
      THEN IF ~validate_message_form(obj).ok THEN validate_message_form(obj)
           ELSE IF ~is_string(content)
             THEN Err(InvalidFieldType("message.content must be a string"))
           ELSE Ok(Message(content.v))
    ELSE IF ~validate_tool_call_form(obj).ok THEN validate_tool_call_form(obj)
    ELSE IF ~is_string(tool)
      THEN Err(InvalidFieldType("tool_call.tool must be a string"))
    ELSE Ok(ToolCall(tool.v, args))

validate(val) ==
  IF ~is_object(val) THEN Err(ProtocolViolation("must be a JSON object"))
  ELSE
    LET obj == val.v
        has_message == contains_key(obj, "message")
        has_tool_call == contains_key(obj, "tool_call")
        content == Index(Index(val, "message"), "content")
        tool == Index(Index(val, "tool_call"), "tool")
        args == Index(Index(val, "tool_call"), "args")
    IN
    IF has_message /\ has_tool_call
      THEN Err(ProtocolViolation(
        "protocol messages must contain exactly one of 'message' or 'tool_call', not both"))
    ELSE IF ~has_message /\ ~has_tool_call
      THEN Err(ProtocolViolation(
        "protocol messages must contain either 'message' or 'tool_call'"))
    ELSE IF \E k \in DOMAIN obj : ~is_known(k)
      THEN Err(UnknownField(first_unknown(obj)))
    ELSE IF has_message
      THEN IF ~validate_message_form(obj).ok THEN validate_message_form(obj)
           ELSE IF ~is_string(content)
             THEN Err(InvalidFieldType("message.content must be a string"))
           ELSE Ok(Message(content.v))
    ELSE IF ~validate_tool_call_form(obj).ok THEN validate_tool_call_form(obj)
    ELSE IF ~is_string(tool)
      THEN Err(InvalidFieldType("tool_call.tool must be a string"))
    ELSE Ok(ToolCall(tool.v, args))



(***************************************************************************)
(* Input text and serde_json::from_str / to_string                         *)
(***************************************************************************)
\* lexical tokens: punctuation, a quoted string, a bare literal
P(s) == [k |-> "punct", s |-> s]
S(s) == [k |-> "string", s |-> s]
L(s) == [k |-> "lit", s |-> s]

\* the number literals of the model and the numbers they denote
NumberLits == {"0", "1", "42"}
number_of(s) == CASE s = "0" -> 0 [] s = "1" -> 1 [] s = "42" -> 42
literal_of(n) == CASE n = 0 -> "0" [] n = 1 -> "1" [] n = 42 -> "42"

Parsed(val, next) == [ok |-> TRUE, val |-> val, next |-> next]
ParseErr(category) == [ok |-> FALSE, err |-> category]

RECURSIVE parse_value(_, _), parse_members(_, _, _), parse_elements(_, _, _)

\* parse one JSON value starting at token i
parse_value(toks, i) ==
  IF i > Len(toks) THEN ParseErr("EOF while parsing a value")
  ELSE LET tk == toks[i] IN
    IF tk.k = "string" THEN Parsed(String(tk.s), i + 1)
    ELSE IF tk.k = "lit" THEN
      IF tk.s = "null" THEN Parsed(Null, i + 1)
      ELSE IF tk.s = "true" THEN Parsed(Bool(TRUE), i + 1)
      ELSE IF tk.s = "false" THEN Parsed(Bool(FALSE), i + 1)
      ELSE IF tk.s \in NumberLits THEN Parsed(Number(number_of(tk.s)), i + 1)
      ELSE ParseErr("expected value")
    ELSE IF tk.s = "{" THEN
      IF i + 1 <= Len(toks) /\ toks[i + 1] = P("}")
        THEN Parsed(Object(EmptyMap), i + 2)
        ELSE parse_members(toks, i + 1, EmptyMap)
    ELSE IF tk.s = "[" THEN
      IF i + 1 <= Len(toks) /\ toks[i + 1] = P("]")
        THEN Parsed(Array(<<>>), i + 2)
        ELSE parse_elements(toks, i + 1, <<>>)
    ELSE ParseErr("expected value")

\* parse the members of an object from the key at token i on
parse_members(toks, i, map) ==
  IF i > Len(toks) THEN ParseErr("EOF while parsing an object")
  ELSE IF toks[i].k # "string" THEN ParseErr("key must be a string")
  ELSE IF i + 1 > Len(toks) THEN ParseErr("EOF while parsing an object")
  ELSE IF toks[i + 1] # P(":") THEN ParseErr("expected :")
  ELSE LET r == parse_value(toks, i + 2) IN
    IF ~r.ok THEN r
    ELSE IF r.next > Len(toks) THEN ParseErr("EOF while parsing an object")
    ELSE IF toks[r.next] = P(",")
      THEN parse_members(toks, r.next + 1, map_insert(map, toks[i].s, r.val))
    ELSE IF toks[r.next] = P("}")
      THEN Parsed(Object(map_insert(map, toks[i].s, r.val)), r.next + 1)
    ELSE ParseErr("expected , or }")

\* parse the elements of an array from token i on
parse_elements(toks, i, elems) ==
  LET r == parse_value(toks, i) IN
    IF ~r.ok THEN r
    ELSE IF r.next > Len(toks) THEN ParseErr("EOF while parsing a list")
    ELSE IF toks[r.next] = P(",")
      THEN parse_elements(toks, r.next + 1, Append(elems, r.val))
    ELSE IF toks[r.next] = P("]")
      THEN Parsed(Array(Append(elems, r.val)), r.next + 1)
    ELSE ParseErr("expected , or ]")

\* serde_json::from_str::<Value>, its error converted by From into InvalidJson
from_str(input) ==
  LET r == parse_value(input, 1) IN
    IF ~r.ok THEN Err(InvalidJson(r.err))
    ELSE IF r.next <= Len(input) THEN Err(InvalidJson("trailing characters"))
    ELSE Ok(r.val)

RECURSIVE to_string(_), members_to_string(_, _), elements_to_string(_)

\* serde_json::to_string of a Value
to_string(val) ==
  CASE val.t = "null" -> <<L("null")>>
    [] val.t = "bool" -> <<L(IF val.v THEN "true" ELSE "false")>>
    [] val.t = "number" -> <<L(literal_of(val.v))>>
    [] val.t = "string" -> <<S(val.v)>>
    [] val.t = "array" -> <<P("[")>> \o elements_to_string(val.v) \o <<P("]")>>
    [] val.t = "object" ->
         <<P("{")>> \o members_to_string(val.v, keys(val.v)) \o <<P("}")>>

members_to_string(map, ks) ==
  IF ks = <<>> THEN <<>>
  ELSE <<S(Head(ks)), P(":")>> \o to_string(map[Head(ks)])
       \o (IF Tail(ks) = <<>> THEN <<>> ELSE <<P(",")>>)
       \o members_to_string(map, Tail(ks))

elements_to_string(elems) ==
  IF elems = <<>> THEN <<>>
  ELSE to_string(Head(elems))
       \o (IF Tail(elems) = <<>> THEN <<>> ELSE <<P(",")>>)
       \o elements_to_string(Tail(elems))

\* validate_str that validates a default (null) value when parsing fails
validate_str_lenient(input) ==
  LET parsed == from_str(input) IN
    IF ~parsed.ok THEN validate(Null) ELSE validate(parsed.out)

\* Validator::validate_str
validate_str(input) ==
  LET parsed == from_str(input) IN
    IF ~parsed.ok THEN parsed ELSE validate(parsed.out)

\* ProtocolOutput::parse
parse(input) ==
  LET parsed == from_str(input) IN
    IF ~parsed.ok THEN parsed ELSE validate(parsed.out)

(***************************************************************************)
(* derive(Serialize, Deserialize) of the message types, serde(untagged)    *)
(***************************************************************************)
\* Serialize without serde(untagged): the variant name wraps the struct
to_value_tagged(out) ==
  IF out.variant = "Message"
    THEN Object(MapOf({<<"Message", Object(MapOf({<<"message",
           Object(MapOf({<<"content", String(out.message.content)>>}))>>}))>>}))
    ELSE Object(MapOf({<<"ToolCall", Object(MapOf({<<"tool_call",
           Object(MapOf({<<"tool", String(out.tool_call.tool)>>,
                         <<"args", out.tool_call.args>>}))>>}))>>}))

\* Serialize of ProtocolOutput: untagged, so the variant's struct as a map
to_value(out) ==
  IF out.variant = "Message"
    THEN Object(MapOf({<<"message",
           Object(MapOf({<<"content", String(out.message.content)>>}))>>}))
    ELSE Object(MapOf({<<"tool_call",
           Object(MapOf({<<"tool", String(out.tool_call.tool)>>,
                         <<"args", out.tool_call.args>>}))>>}))

\* The fields a derived struct visitor reads: from a map by name (unknown
\* keys are ignored, a missing field is an error), from a sequence by
\* position (exactly one element per field).
struct_fields(val, names) ==
  IF is_object(val)
    THEN IF \A i \in 1..Len(names) : names[i] \in DOMAIN val.v
           THEN Ok([i \in 1..Len(names) |-> val.v[names[i]]])
           ELSE Err(InvalidJson("missing field"))
  ELSE IF val.t = "array"
    THEN IF Len(val.v) = Len(names) THEN Ok(val.v)
         ELSE Err(InvalidJson("invalid length"))
  ELSE Err(InvalidJson("invalid type"))

\* Deserialize of MessageContent { content: String }
deserialize_message_content(val) ==
  LET f == struct_fields(val, <<"content">>) IN
    IF ~f.ok THEN f
    ELSE IF ~is_string(f.out[1]) THEN Err(InvalidJson("invalid type"))
    ELSE Ok([content |-> f.out[1].v])

\* Deserialize of MessageForm { message: MessageContent }
deserialize_message_form(val) ==
  LET f == struct_fields(val, <<"message">>) IN
    IF ~f.ok THEN f
    ELSE LET m == deserialize_message_content(f.out[1]) IN
      IF ~m.ok THEN m ELSE Ok([message |-> m.out])

\* Deserialize of ToolCallForm { tool: String, args: Value }
deserialize_tool_call_form(val) ==
  LET f == struct_fields(val, <<"tool", "args">>) IN
    IF ~f.ok THEN f
    ELSE IF ~is_string(f.out[1]) THEN Err(InvalidJson("invalid type"))
    ELSE Ok([tool |-> f.out[1].v, args |-> f.out[2]])

\* Deserialize of ToolCallWrapper { tool_call: ToolCallForm }
deserialize_tool_call_wrapper(val) ==
  LET f == struct_fields(val, <<"tool_call">>) IN
    IF ~f.ok THEN f
    ELSE LET tc == deserialize_tool_call_form(f.out[1]) IN
      IF ~tc.ok THEN tc ELSE Ok([tool_call |-> tc.out])

\* Deserialize of ProtocolOutput: untagged, the first variant that matches
deserialize(val) ==
  IF deserialize_message_form(val).ok
    THEN Ok(Message(deserialize_message_form(val).out.message.content))
  ELSE IF deserialize_tool_call_wrapper(val).ok
    THEN Ok(ToolCall(deserialize_tool_call_wrapper(val).out.tool_call.tool,
                     deserialize_tool_call_wrapper(val).out.tool_call.args))
  ELSE Err(InvalidJson(
    "data did not match any variant of untagged enum ProtocolOutput"))

(***************************************************************************)
(* The inputs                                                              *)
(***************************************************************************)
\* one value of every JSON type; strings empty and non-empty
Leaves ==
  {Null, Bool(TRUE), Number(42), Array(<<>>), Object(EmptyMap)}
    \cup {String(s) : s \in Strings}

\* what "args" may hold: the leaves, a non-empty array, a non-empty object
ArgsValues ==
  Leaves \cup {Array(<<String(StringPool[2])>>),
               Object(MapOf({<<"url", String(StringPool[2])>>}))}

\* the key absent, or present with a value of vals
Opt(key, vals) == {{}} \cup {{<<key, v>>} : v \in vals}

\* any subset of the given keys, each present with the value val
Extras(ks, val) == SUBSET {<<k, val>> : k \in ks}

MessageValues ==
  Leaves \cup {Object(MapOf(c \cup e)) :
                 c \in Opt("content", Leaves), e \in Extras(NestedKeys, Null)}

ToolCallValues ==
  Leaves \cup {Object(MapOf((t \cup a) \cup e)) :
                 t \in Opt("tool", Leaves), a \in Opt("args", ArgsValues),
                 e \in Extras(NestedKeys, Null)}

Values ==
  Leaves \cup {Object(MapOf((m \cup t) \cup u)) :
                 m \in Opt("message", MessageValues),
                 t \in Opt("tool_call", ToolCallValues),
                 u \in Extras(UnknownKeys, String("value"))}

\* what the caller supplies: a parsed value, its JSON text, or text that is
\* not JSON (cut short, followed by a stray token, or plain words)
Forms == {"value", "json", "truncated", "trailing", "garbage"}

TextOf(f, val) ==
  CASE f = "value" -> <<>>
    [] f = "json" -> to_string(val)
    [] f = "truncated" -> SubSeq(to_string(val), 1, Len(to_string(val)) - 1)
    [] f = "trailing" -> to_string(val) \o <<P("}")>>
    [] f = "garbage" -> <<L("not"), L("valid"), L("json")>>

(***************************************************************************)
(* The state machine: one call on one input, then the round trip           *)
(***************************************************************************)
NoResult == [ok |-> FALSE, err |-> [kind |-> "none", msg |-> "", arg |-> ""]]
NoWire == <<>>

Init ==
  /\ form \in Forms
  /\ value \in Values
  /\ text = TextOf(form, value)
  /\ op = "none"
  /\ result = NoResult
  /\ wire = NoWire
  /\ again = NoResult

\* validator.validate(&value)
Validate ==
  /\ op = "none" /\ form = "value"
  /\ op' = "validate"
  /\ result' = validate(value)
  /\ UNCHANGED <<form, value, text, wire, again>>

\* validator.validate_str(text)
ValidateStr ==
  /\ op = "none" /\ form # "value"
  /\ op' = "validate_str"
  /\ result' = validate_str(text)
  /\ UNCHANGED <<form, value, text, wire, again>>

\* ProtocolOutput::parse(text)
Parse ==
  /\ op = "none" /\ form # "value"
  /\ op' = "parse"
  /\ result' = parse(text)
  /\ UNCHANGED <<form, value, text, wire, again>>

\* serde_json::from_value::<ProtocolOutput>(value)
Deserialize ==
  /\ op = "none" /\ form = "value"
  /\ op' = "deserialize"
  /\ result' = deserialize(value)
  /\ UNCHANGED <<form, value, text, wire, again>>

\* serde_json::to_string(&output) of a constructed ProtocolOutput
Serialize ==
  /\ op # "none" /\ result.ok /\ wire = NoWire
  /\ wire' = to_string(to_value(result.out))
  /\ UNCHANGED <<form, value, text, op, result, again>>

\* ProtocolOutput::parse(&wire) of the serialized output
Reparse ==
  /\ wire # NoWire /\ again = NoResult
  /\ again' = parse(wire)
  /\ UNCHANGED <<form, value, text, op, result, wire>>

Next ==
  \/ Validate
  \/ ValidateStr
  \/ Parse
  \/ Deserialize
  \/ Serialize
  \/ Reparse

Spec == Init /\ [][Next]_vars

(***************************************************************************)
(* Vocabulary of the properties: the input as the caller sees it           *)
(***************************************************************************)
NotBothMsg ==
  "protocol messages must contain exactly one of 'message' or 'tool_call', not both"
EitherMsg ==
  "protocol messages must contain either 'message' or 'tool_call'"

IsObj(val) == val.t = "object"
Has(val, key) == IsObj(val) /\ key \in DOMAIN val.v
\* the top-level keys of the input outside the two recognized ones
Unrecognized ==
  IF IsObj(value) THEN DOMAIN value.v \ {"message", "tool_call"} ELSE {}
\* the input is an object whose only top-level key is key
OnlyKey(key) == IsObj(value) /\ DOMAIN value.v = {key}
NonEmptyString(val) == val.t = "string" /\ val.v # ""

\* the call failed with this error variant (and this text)
FailedKind(res, kind) == ~res.ok /\ res.err.kind = kind
Failed(res, kind, msg) == FailedKind(res, kind) /\ res.err.msg = msg

\* Validator::validate has run on value
Validated == op = "validate"

\* the two accepted input shapes
AcceptedMessage ==
  /\ OnlyKey("message")
  /\ Has(value.v["message"], "content")
  /\ NonEmptyString(value.v["message"].v["content"])
AcceptedToolCall ==
  /\ OnlyKey("tool_call")
  /\ Has(value.v["tool_call"], "tool")
  /\ NonEmptyString(value.v["tool_call"].v["tool"])
  /\ Has(value.v["tool_call"], "args")
  /\ IsObj(value.v["tool_call"].v["args"])

\* a ProtocolOutput that satisfies the validation rules
ValidOutput(out) ==
  IF out.variant = "Message" THEN out.message.content # ""
  ELSE out.tool_call.tool # "" /\ out.tool_call.args.t = "object"

(***************************************************************************)
(* Properties                                                              *)
(***************************************************************************)
\* C1: an object holding both "message" and "tool_call", whatever their
\* values and whatever other keys it has, is rejected by validate with the
\* 'not both' ProtocolViolation and with nothing else.
C1_BothRejected ==
  (Validated /\ Has(value, "message") /\ Has(value, "tool_call"))
    => Failed(result, "ProtocolViolation", NotBothMsg)

\* both keys present, the message one well formed, the tool_call one not an
\* object, and an unrecognized key beside them
C1_Witness ==
  /\ Validated /\ Has(value, "message") /\ Has(value, "tool_call")
  /\ Has(value.v["message"], "content")
  /\ NonEmptyString(value.v["message"].v["content"])
  /\ ~IsObj(value.v["tool_call"])
  /\ Unrecognized # {}

\* C2: validate returns Ok exactly on the two accepted shapes, with the
\* Message variant carrying the content string, resp. the ToolCall variant
\* carrying the tool string and the args of the input unchanged; keys nested
\* in the message / tool_call object beyond the required ones are ignored.
C2_OkExactly ==
  Validated =>
    /\ result.ok <=> (AcceptedMessage \/ AcceptedToolCall)
    /\ AcceptedMessage =>
         result = Ok(Message(value.v["message"].v["content"].v))
    /\ AcceptedToolCall =>
         result = Ok(ToolCall(value.v["tool_call"].v["tool"].v,
                              value.v["tool_call"].v["args"]))

\* an accepted tool call with non-empty args and an unrecognized nested key
C2_Witness ==
  /\ Validated /\ AcceptedToolCall /\ result.ok
  /\ DOMAIN value.v["tool_call"].v["args"].v # {}
  /\ DOMAIN value.v["tool_call"].v \ {"tool", "args"} # {}

\* C3: an object with exactly one of "message" / "tool_call" and at least
\* one other top-level key is rejected with UnknownField naming one of the
\* other keys, whether or not the recognized key's value is well formed.
C3_UnknownField ==
  (Validated /\ (Has(value, "message") # Has(value, "tool_call"))
     /\ Unrecognized # {})
    => FailedKind(result, "UnknownField") /\ result.err.arg \in Unrecognized

\* an unrecognized key beside a tool_call whose value is not even an object
C3_Witness ==
  /\ Validated /\ Has(value, "tool_call") /\ ~Has(value, "message")
  /\ ~IsObj(value.v["tool_call"])
  /\ Unrecognized # {}
  /\ FailedKind(result, "UnknownField")

\* C4: an object with neither "message" nor "tool_call" is rejected with the
\* 'either ... required' ProtocolViolation, also when all it holds is
\* unrecognized keys.
C4_NeitherRejected ==
  (Validated /\ IsObj(value) /\ ~Has(value, "message")
     /\ ~Has(value, "tool_call"))
    => Failed(result, "ProtocolViolation", EitherMsg)

\* an object that holds unrecognized keys only
C4_Witness ==
  /\ Validated /\ IsObj(value) /\ Unrecognized # {}
  /\ DOMAIN value.v = Unrecognized
  /\ ~result.ok

\* C5: every ProtocolOutput that has been constructed is valid: a Message
\* has non-empty content, a ToolCall a non-empty tool and object args.
C5_OutputsValid ==
  (op # "none" /\ result.ok) => ValidOutput(result.out)

\* C6: with "message" as only key and message.content == "", resp.
\* "tool_call" as only key and tool_call.tool == "" (whatever args is),
\* validate fails with the ProtocolViolation naming the empty field.
C6_EmptyRejected ==
  Validated =>
    /\ (OnlyKey("message") /\ Has(value.v["message"], "content")
          /\ value.v["message"].v["content"] = String(""))
        => Failed(result, "ProtocolViolation",
                  "message.content must not be empty")
    /\ (OnlyKey("tool_call") /\ Has(value.v["tool_call"], "tool")
          /\ value.v["tool_call"].v["tool"] = String(""))
        => Failed(result, "ProtocolViolation",
                  "tool_call.tool must not be empty")

\* an empty tool beside args == {}
C6_Witness ==
  /\ Validated /\ OnlyKey("tool_call")
  /\ Has(value.v["tool_call"], "tool")
  /\ value.v["tool_call"].v["tool"] = String("")
  /\ Has(value.v["tool_call"], "args")
  /\ value.v["tool_call"].v["args"] = Object(EmptyMap)
  /\ ~result.ok

\* C7: with "tool_call" as only key, tool a non-empty string and args
\* present, validate fails with InvalidFieldType when args is an array,
\* string, number, boolean or null, and succeeds exactly when args is an
\* object.
C7_ArgsType ==
  (Validated /\ OnlyKey("tool_call") /\ Has(value.v["tool_call"], "tool")
     /\ NonEmptyString(value.v["tool_call"].v["tool"])
     /\ Has(value.v["tool_call"], "args"))
    => /\ value.v["tool_call"].v["args"].t
            \in {"array", "string", "number", "bool", "null"}
          => Failed(result, "InvalidFieldType",
                    "tool_call.args must be an object")
       /\ result.ok <=> value.v["tool_call"].v["args"].t = "object"

\* args is an array
C7_Witness ==
  /\ Validated /\ OnlyKey("tool_call") /\ Has(value.v["tool_call"], "tool")
  /\ NonEmptyString(value.v["tool_call"].v["tool"])
  /\ Has(value.v["tool_call"], "args")
  /\ value.v["tool_call"].v["args"].t = "array"
  /\ FailedKind(result, "InvalidFieldType")

\* C8: validate_str and parse fail with InvalidJson on text that is not
\* JSON, and on the JSON text of a value return what validate returns on
\* that value.
C8_TextEntry ==
  (op \in {"validate_str", "parse"}) =>
    /\ form = "json" => result = validate(value)
    /\ form \in {"truncated", "trailing", "garbage"}
         => FailedKind(result, "InvalidJson")

\* parse has accepted the JSON text of a tool call
C8_Witness ==
  /\ op = "parse" /\ form = "json" /\ result.ok
  /\ result.out.variant = "ToolCall"

\* C9: when validation returned Ok(p), serializing p and validating the
\* serialization returns Ok(p') with p' = p.
C9_RoundTrip ==
  (op \in {"validate", "validate_str", "parse"} /\ result.ok
     /\ again # NoResult)
    => again = result

\* a validated tool call with non-empty args has gone round
C9_Witness ==
  /\ op = "validate" /\ result.ok /\ again # NoResult
  /\ result.out.variant = "ToolCall"
  /\ DOMAIN result.out.tool_call.args.v # {}

\* C10: validate reports the first failing check of the fixed order:
\* object; exclusivity; closed fields; then for "message": object, content
\* present, content a string, content non-empty; for "tool_call": object,
\* tool present, tool a string, tool non-empty, args present, args an object.
C10_CheckOrder ==
  Validated =>
    /\ ~IsObj(value)
         => Failed(result, "ProtocolViolation", "must be a JSON object")
    /\ (Has(value, "message") /\ Has(value, "tool_call"))
         => Failed(result, "ProtocolViolation", NotBothMsg)
    /\ (IsObj(value) /\ ~Has(value, "message") /\ ~Has(value, "tool_call"))
         => Failed(result, "ProtocolViolation", EitherMsg)
    /\ ((Has(value, "message") # Has(value, "tool_call"))
          /\ Unrecognized # {})
         => FailedKind(result, "UnknownField")
    /\ OnlyKey("message") =>
         LET m == value.v["message"] IN
         /\ ~IsObj(m)
              => Failed(result, "ProtocolViolation",
                        "message must be an object")
         /\ (IsObj(m) /\ ~Has(m, "content"))
              => Failed(result, "MissingField", "message.content")
         /\ (Has(m, "content") /\ m.v["content"].t # "string")
              => Failed(result, "InvalidFieldType",
                        "message.content must be a string")
         /\ (Has(m, "content") /\ m.v["content"] = String(""))
              => Failed(result, "ProtocolViolation",
                        "message.content must not be empty")
         /\ (Has(m, "content") /\ NonEmptyString(m.v["content"]))
              => result.ok
    /\ OnlyKey("tool_call") =>
         LET tc == value.v["tool_call"]
             ToolFine == Has(tc, "tool") /\ NonEmptyString(tc.v["tool"])
         IN
         /\ ~IsObj(tc)
              => Failed(result, "ProtocolViolation",
                        "tool_call must be an object")
         /\ (IsObj(tc) /\ ~Has(tc, "tool"))
              => Failed(result, "MissingField", "tool_call.tool")
         /\ (Has(tc, "tool") /\ tc.v["tool"].t # "string")
              => Failed(result, "InvalidFieldType",
                        "tool_call.tool must be a string")
         /\ (Has(tc, "tool") /\ tc.v["tool"] = String(""))
              => Failed(result, "ProtocolViolation",
                        "tool_call.tool must not be empty")
         /\ (ToolFine /\ ~Has(tc, "args"))
              => Failed(result, "MissingField", "tool_call.args")
         /\ (ToolFine /\ Has(tc, "args") /\ ~IsObj(tc.v["args"]))
              => Failed(result, "InvalidFieldType",
                        "tool_call.args must be an object")
         /\ (ToolFine /\ Has(tc, "args") /\ IsObj(tc.v["args"]))
              => result.ok

\* tool is not a string and args is missing: the tool defect is reported
C10_Witness ==
  /\ Validated /\ OnlyKey("tool_call")
  /\ Has(value.v["tool_call"], "tool")
  /\ value.v["tool_call"].v["tool"].t = "number"
  /\ ~Has(value.v["tool_call"], "args")
  /\ Failed(result, "InvalidFieldType", "tool_call.tool must be a string")

====
